---- MODULE Spec2Model ----
(***************************************************************************)
(* Model of the telemetry logger of the asteroids game (src/logger.py):    *)
(* the module-level state, log_state() (the state sampler) and log_event() *)
(* (the event recorder), the two log files they write, and the wall clock  *)
(* they read.                                                              *)
(*                                                                         *)
(* Conventions.                                                            *)
(*  - A Python dict is an ordered association list: a sequence of          *)
(*    <<key, value>> pairs in insertion order (dict iteration order).      *)
(*  - A JSON value is tagged by its kind: [int |-> n], [num |-> n],        *)
(*    [str |-> s], [arr |-> seq], [obj |-> dict].  A float is held in      *)
(*    thousandths, so [num |-> 10504] is 10.504.                           *)
(*  - A file is the sequence of its lines; a line is the dict that         *)
(*    json.dumps serialised, keys in insertion order.                      *)
(*  - A value of the caller's scope is [cls, pygame, attrs, members]: its  *)
(*    class name, whether str(type(v)) contains "pygame", the attributes   *)
(*    hasattr() finds, and what iterating it yields.                       *)
(*  - Time is in milliseconds of wall clock.                               *)
(***************************************************************************)
EXTENDS Integers, Sequences, FiniteSets, TLC

VARIABLES
    frame_count,            \* logger._frame_count
    state_log_initialized,  \* logger._state_log_initialized
    event_log_initialized,  \* logger._event_log_initialized
    start_time,             \* logger._start_time
    state_file,             \* lines of game_state.jsonl
    event_file,             \* lines of game_events.jsonl
    now,                    \* what datetime.now() returns
    raised,                 \* the last call ended by raising an error
    calls,                  \* history: number of log_state calls made
    event_calls,            \* history: number of log_event calls made
    writes,                 \* history: the successful writes of this run in
                            \* order, each with the arguments of its call
    pc,                     \* where main() is
    iter,                   \* iterations of main()'s loop begun
    asteroids_left,         \* asteroids the collision loop has yet to visit
    shots_left,             \* shots the inner loop has yet to visit
    sampled,                \* history: _frame_count after each log_state
                            \* call of main(), by iteration
    event_iters             \* history: the iteration of each log_event call
                            \* of main()

vars == <<frame_count, state_log_initialized, event_log_initialized,
          start_time, state_file, event_file, now, raised, calls, event_calls,
          writes, pc, iter, asteroids_left, shots_left, sampled, event_iters>>

\* the state of main()
main_vars == <<pc, iter, asteroids_left, shots_left, sampled, event_iters>>

---------------------------------------------------------------------------
(* Program constants.                                                      *)

_FPS == 60
_MAX_SECONDS == 16
_SPRITE_SAMPLE_LIMIT == 10

---------------------------------------------------------------------------
(* Bounds of the model.                                                    *)

\* log_state calls made in the interleaving specification
MaxCalls == 121
\* log_state calls made past the frame ceiling in the budget specification
\* (more than _FPS, so that a sample one second past the ceiling would show)
MaxExtraCalls == 61
\* log_state calls made in the snapshot specification
MaxSnapCalls == 60
\* log_event calls made in a run
MaxEvents == 2
\* log_event is called within this many frames of a sampling boundary
EventWindow == 1
\* the clock advances up to this many milliseconds past start_time
MaxElapsedMs == 1000
\* largest sprite group in the caller's scope
MaxGroup == 11
\* longest caller scope (number of local variables) enumerated
MaxScope == 2

\* iterations of main()'s loop, asteroids and shots met in one iteration
MaxIters == 61
MaxAsteroids == 2
MaxShots == 2

Min(a, b) == IF a < b THEN a ELSE b

---------------------------------------------------------------------------
(* JSON values and Python dicts.                                           *)

JInt(n) == [int |-> n]
JNum(n) == [num |-> n]
JStr(s) == [str |-> s]
JArr(a) == [arr |-> a]
JObj(d) == [obj |-> d]

Keys(d) == {d[i][1] : i \in DOMAIN d}
HasKey(d, k) == k \in Keys(d)
Get(d, k) == d[CHOOSE i \in DOMAIN d : d[i][1] = k][2]

\* d[k] = v: a new key goes last, an existing key keeps its place
DictSet(d, k, v) ==
    IF HasKey(d, k)
    THEN [i \in DOMAIN d |-> IF d[i][1] = k THEN <<k, v>> ELSE d[i]]
    ELSE Append(d, <<k, v>>)

\* {**d, **e}
RECURSIVE DictMerge(_, _)
DictMerge(d, e) ==
    IF e = <<>> THEN d
    ELSE DictMerge(DictSet(d, Head(e)[1], Head(e)[2]), Tail(e))

---------------------------------------------------------------------------
(* Time.                                                                   *)

\* now.strftime("%H:%M:%S.%f")[:-3]: <<HH, MM, SS, mmm>> of the time of day
Timestamp(t) ==
    JStr(<<(t \div 3600000) % 24, (t \div 60000) % 60,
           (t \div 1000) % 60, t % 1000>>)

\* math.floor((now - _start_time).total_seconds())
ElapsedS(t, t0) == (t - t0) \div 1000

---------------------------------------------------------------------------
(* Values of the caller's scope.                                           *)

Obj(cls, pygame, attrs, members) ==
    [cls |-> cls, pygame |-> pygame, attrs |-> attrs, members |-> members]

\* hasattr(v, a) and getattr(v, a)
HasAttr(v, a) == HasKey(v.attrs, a)
Attr(v, a) == Get(v.attrs, a)

Vec(x, y) == [x |-> x, y |-> y]

\* round(v, 2) of a float held in thousandths (no modelled value ends in 5)
Round2(v) == LET r == v % 10 IN IF r < 5 THEN v - r ELSE v - r + 10

\* "pygame" in str(type(value)) and hasattr(value, "get_size")
IsSurface(value) == value.pygame /\ HasAttr(value, "get_size")

\* "Group" in value.__class__.__name__
IsGroup(value) == value.cls \in {"Group", "GroupSingle", "LayeredUpdates"}

---------------------------------------------------------------------------
(* log_state: the summary of one sprite and the snapshot of one group.     *)

PosOf(v) == JArr(<<JNum(Round2(Attr(v, "position").x)),
                   JNum(Round2(Attr(v, "position").y))>>)
VelOf(v) == JArr(<<JNum(Round2(Attr(v, "velocity").x)),
                   JNum(Round2(Attr(v, "velocity").y))>>)

\* sprite_info of a group member
SpriteInfo(sprite) ==
    LET d0 == <<<<"type", JStr(sprite.cls)>>>>
        d1 == IF HasAttr(sprite, "position")
              THEN DictSet(d0, "pos", PosOf(sprite)) ELSE d0
        d2 == IF HasAttr(sprite, "velocity")
              THEN DictSet(d1, "vel", VelOf(sprite)) ELSE d1
        d3 == IF HasAttr(sprite, "radius")
              THEN DictSet(d2, "rad", JNum(Attr(sprite, "radius"))) ELSE d2
        d4 == IF HasAttr(sprite, "rotation")
              THEN DictSet(d3, "rot", JNum(Round2(Attr(sprite, "rotation"))))
              ELSE d3
    IN  d4

\* sprite_info of a standalone object that has a position
StandaloneInfo(value) ==
    LET d0 == <<<<"type", JStr(value.cls)>>>>
        d1 == DictSet(d0, "pos", PosOf(value))
        d2 == IF HasAttr(value, "velocity")
              THEN DictSet(d1, "vel", VelOf(value)) ELSE d1
        d3 == IF HasAttr(value, "radius")
              THEN DictSet(d2, "rad", JNum(Attr(value, "radius"))) ELSE d2
        d4 == IF HasAttr(value, "rotation")
              THEN DictSet(d3, "rot", JNum(Round2(Attr(value, "rotation"))))
              ELSE d3
    IN  d4

\* faulty variant: stops one sprite too late
SampleLimitReachedLate(i) == i > _SPRITE_SAMPLE_LIMIT

\* if i >= _SPRITE_SAMPLE_LIMIT: break
SampleLimitReached(i) == i >= _SPRITE_SAMPLE_LIMIT

\* for i, sprite in enumerate(value): ... sprites_data.append(sprite_info)
\* (i counts from 0, members[i + 1] is the i-th sprite the group yields)
RECURSIVE SpritesData(_, _, _)
SpritesData(members, i, acc) ==
    IF i >= Len(members) \/ SampleLimitReached(i) THEN acc
    ELSE SpritesData(members, i + 1, Append(acc, JObj(SpriteInfo(members[i + 1]))))

\* len(value)
GroupCount(value) == Len(value.members)

\* {"count": len(value), "sprites": sprites_data}
GroupSnapshot(value) ==
    JObj(<<<<"count", JInt(GroupCount(value))>>,
           <<"sprites", JArr(SpritesData(value.members, 0, <<>>))>>>>)

\* faulty variant: the fallback ignores what was already found
StandaloneAppliesAlways(game_state, value) == HasAttr(value, "position")

\* len(game_state) == 0 and hasattr(value, "position")
StandaloneApplies(game_state, value) ==
    Len(game_state) = 0 /\ HasAttr(value, "position")

\* one iteration of "for key, value in local_vars.items()" on the pair
\* acc = [screen_size, game_state]
ScanOne(acc, key, value) ==
    LET size == IF IsSurface(value)
                THEN JArr(<<JInt(Attr(value, "get_size")[1]),
                            JInt(Attr(value, "get_size")[2])>>)
                ELSE acc.screen_size
        gs1 == IF IsGroup(value)
               THEN DictSet(acc.game_state, key, GroupSnapshot(value))
               ELSE acc.game_state
        gs2 == IF StandaloneApplies(gs1, value)
               THEN DictSet(gs1, key, JObj(StandaloneInfo(value)))
               ELSE gs1
    IN  [screen_size |-> size, game_state |-> gs2]

\* faulty variant: no size is null instead of the empty list
NoScreenSizeNull == [null |-> TRUE]

\* screen_size = []
NoScreenSize == JArr(<<>>)

\* the whole loop over the caller's locals, in dict order
RECURSIVE ScanScope(_, _)
ScanScope(acc, local_vars) ==
    IF local_vars = <<>> THEN acc
    ELSE ScanScope(ScanOne(acc, Head(local_vars)[1], Head(local_vars)[2]),
                   Tail(local_vars))

\* v.x and v.y exist: v is a vector, not, say, a tuple
IsVector(v) == DOMAIN v = {"x", "y"}

\* building the summary of obj raises AttributeError: hasattr() found a
\* position or a velocity, but it has no x and y
InfoRaises(obj) ==
    \/ HasAttr(obj, "position") /\ ~IsVector(Attr(obj, "position"))
    \/ HasAttr(obj, "velocity") /\ ~IsVector(Attr(obj, "velocity"))

\* the loop over the caller's locals raises: some sampled member of a group,
\* or a standalone object the fallback applies to, has such an attribute
RECURSIVE ScanRaises(_, _)
ScanRaises(acc, local_vars) ==
    IF local_vars = <<>> THEN FALSE
    ELSE LET key == Head(local_vars)[1]
             value == Head(local_vars)[2]
             here == IF IsGroup(value)
                     THEN \E i \in DOMAIN value.members :
                              ~SampleLimitReached(i - 1)
                                  /\ InfoRaises(value.members[i])
                     ELSE StandaloneApplies(acc.game_state, value)
                              /\ InfoRaises(value)
         IN  IF here THEN TRUE
             ELSE ScanRaises(ScanOne(acc, key, value), Tail(local_vars))

\* log_state's loop raises on these locals
EntryRaises(local_vars) ==
    ScanRaises([screen_size |-> NoScreenSize, game_state |-> <<>>], local_vars)

\* entry = {"timestamp": ..., "elapsed_s": ..., "frame": ..., "screen_size": ..., **game_state}
StateEntry(t, t0, frame, local_vars) ==
    LET found == ScanScope([screen_size |-> NoScreenSize, game_state |-> <<>>],
                           local_vars)
    IN  DictMerge(<<<<"timestamp", Timestamp(t)>>,
                    <<"elapsed_s", JInt(ElapsedS(t, t0))>>,
                    <<"frame", JInt(frame)>>,
                    <<"screen_size", found.screen_size>>>>,
                  found.game_state)

\* faulty variant: the details are dropped
EventEntryBare(t, t0, frame, event_type, details) ==
    <<<<"timestamp", Timestamp(t)>>, <<"elapsed_s", JInt(ElapsedS(t, t0))>>,
      <<"frame", JInt(frame)>>, <<"type", JStr(event_type)>>>>

\* event = {"timestamp": ..., "elapsed_s": ..., "frame": ..., "type": event_type, **details}
EventEntry(t, t0, frame, event_type, details) ==
    DictMerge(<<<<"timestamp", Timestamp(t)>>,
                <<"elapsed_s", JInt(ElapsedS(t, t0))>>,
                <<"frame", JInt(frame)>>,
                <<"type", JStr(event_type)>>>>,
              details)

---------------------------------------------------------------------------
(* Writing a line: with open(name, mode) as f: f.write(line + "\n").       *)

\* faulty variant: always appends
OpenModeAppend(initialized) == "a"

\* mode = "w" if not initialized else "a"
OpenMode(initialized) == IF ~initialized THEN "w" ELSE "a"

\* the file's lines once open() returned: "w" truncates, "a" keeps them
Opened(file, mode) == IF mode = "w" THEN <<>> ELSE file

\* the file after the with-block; io is how the operating system answers:
\* "ok", "open_fails" (open raises, the file is untouched) or "write_fails"
\* (open succeeded, the write raises and leaves no line)
Written(file, mode, line, io) ==
    CASE io = "ok"          -> Append(Opened(file, mode), line)
      [] io = "open_fails"  -> file
      [] io = "write_fails" -> Opened(file, mode)

---------------------------------------------------------------------------
(* The logger's two operations.                                            *)

\* faulty variant: the budget never runs out
BudgetExceededNever(fc) == FALSE

\* faulty variant: the budget is one second too long
BudgetExceededLate(fc) == fc > _FPS * (_MAX_SECONDS + 1)

\* if _frame_count > _FPS * _MAX_SECONDS: return
BudgetExceeded(fc) == fc > _FPS * _MAX_SECONDS

\* faulty variant: samples twice a second
SampleDueTwice(fc) == fc % (_FPS \div 2) = 0

\* faulty variant: samples the frame after each boundary
SampleDueLate(fc) == fc % _FPS = 1

\* if _frame_count % _FPS != 0: return   (negated: the call goes on)
SampleDue(fc) == fc % _FPS = 0

\* inspect.currentframe() and its f_back are frames, never None: CPython
\* always has frame support and log_state always has a caller
HasCallerFrame == TRUE

\* a call that returns without touching the files
NoWrite ==
    /\ raised' = FALSE
    /\ UNCHANGED <<state_log_initialized, event_log_initialized, start_time,
                   state_file, event_file, now, writes, event_calls>>

\* faulty variant: the counter restarts after each sample
NextFrameWrapping(fc) == IF fc % _FPS = 0 THEN 1 ELSE fc + 1

\* _frame_count += 1
NextFrame(fc) == fc + 1

\* faulty variant: one flag shared by the two files
EventLogModeShared ==
    OpenMode(state_log_initialized \/ event_log_initialized)

\* the open() mode of each file: each reads its own flag
StateLogMode == OpenMode(state_log_initialized)
EventLogMode == OpenMode(event_log_initialized)

\* faulty variant: the flag is set before the file is written
InitializedAfterAlways(initialized, io) == TRUE

\* _state_log_initialized = True / _event_log_initialized = True: the
\* statement after the with-block, reached only when nothing raised
InitializedAfter(initialized, io) == IF io = "ok" THEN TRUE ELSE initialized

\* log_state(), called where the caller's locals are local_vars
LogState(local_vars, io) ==
    /\ calls' = calls + 1
    /\ IF BudgetExceeded(frame_count)
       THEN /\ frame_count' = frame_count
            /\ NoWrite
       ELSE /\ frame_count' = NextFrame(frame_count)
            /\ IF ~SampleDue(frame_count') \/ ~HasCallerFrame
               THEN NoWrite
               ELSE IF EntryRaises(local_vars)
               THEN /\ raised' = TRUE
                    /\ UNCHANGED <<state_log_initialized,
                                   event_log_initialized, start_time,
                                   state_file, event_file, now, writes,
                                   event_calls>>
               ELSE LET entry == StateEntry(now, start_time, frame_count',
                                            local_vars)
                    IN  /\ state_file' =
                               Written(state_file, StateLogMode, entry, io)
                        /\ state_log_initialized' =
                               InitializedAfter(state_log_initialized, io)
                        /\ writes' =
                               IF io = "ok"
                               THEN Append(writes, [file |-> "state", line |-> entry,
                                                     local_vars |-> local_vars])
                               ELSE writes
                        /\ raised' = (io # "ok")
                        /\ UNCHANGED <<event_log_initialized, start_time,
                                       event_file, now, event_calls>>

\* faulty variant: log_event tests the sampler's budget as log_state does
EventSkippedPastBudget(fc) == BudgetExceeded(fc)

\* log_event has no early return: it tests neither the budget nor the
\* throttle before it builds its record
EventSkipped(fc) == FALSE

\* log_event(event_type, **details)
LogEvent(event_type, details, io) ==
    LET event == EventEntry(now, start_time, frame_count, event_type, details)
    IN  /\ event_calls' = event_calls + 1
        /\ UNCHANGED <<frame_count, state_log_initialized, start_time,
                       state_file, now, calls>>
        /\ IF EventSkipped(frame_count)
           THEN /\ raised' = FALSE
                /\ UNCHANGED <<event_file, event_log_initialized, writes>>
           ELSE /\ event_file' = Written(event_file, EventLogMode, event, io)
                /\ event_log_initialized' =
                       InitializedAfter(event_log_initialized, io)
                /\ writes' = IF io = "ok"
                             THEN Append(writes,
                                         [file |-> "event", line |-> event,
                                          event_type |-> event_type,
                                          details |-> details])
                             ELSE writes
                /\ raised' = (io # "ok")

\* the wall clock moves on by a second
Tick ==
    /\ now + 1000 <= start_time + MaxElapsedMs
    /\ now' = now + 1000
    /\ UNCHANGED <<frame_count, state_log_initialized, event_log_initialized,
                   start_time, state_file, event_file, raised, calls,
                   event_calls, writes>>
    /\ UNCHANGED main_vars

---------------------------------------------------------------------------
(* The environment: what is on disk before the run, what the caller has    *)
(* in scope, which events it reports.                                      *)

\* a line left in a log file by an earlier run
StaleLine ==
    <<<<"timestamp", Timestamp(86399999)>>, <<"elapsed_s", JInt(16)>>,
      <<"frame", JInt(960)>>, <<"screen_size", JArr(<<>>)>>>>

StaleFiles == {<<>>, <<StaleLine, StaleLine>>}

\* sprites of the game: a shape with position, velocity and radius, the
\* player has a rotation too, the asteroid field has none of them
Asteroid(k) ==
    Obj("Asteroid", FALSE,
        <<<<"position", Vec(10504 + 1000 * k, 20000)>>,
          <<"velocity", Vec(1207, 0 - 298)>>,
          <<"radius", 16000 + k>>>>, <<>>)
Player(k) ==
    Obj("Player", FALSE,
        <<<<"position", Vec(640000 + 1000 * k, 360000)>>,
          <<"velocity", Vec(0, 0)>>,
          <<"radius", 20000>>,
          <<"rotation", 45003 + 10 * k>>>>, <<>>)
AsteroidField == Obj("AsteroidField", FALSE, <<>>, <<>>)

\* the k-th sprite of a group
Sprite(k) ==
    CASE k % 3 = 1 -> Asteroid(k)
      [] k % 3 = 2 -> Player(k)
      [] OTHER     -> AsteroidField

\* pygame.sprite.Group holding n sprites
Group(n) == Obj("Group", TRUE, <<>>, [k \in 1..n |-> Sprite(k)])

\* pygame.display.set_mode((w, h)), pygame.time.Clock(), dt
Surface(w, h) == Obj("Surface", TRUE, <<<<"get_size", <<w, h>>>>>>, <<>>)
Clock == Obj("Clock", TRUE, <<>>, <<>>)
Float == Obj("float", FALSE, <<>>, <<>>)

\* the locals of main() at its log_state() call, updatable holding n sprites
MainScope(n) ==
    <<<<"screen", Surface(1280, 720)>>, <<"clock", Clock>>,
      <<"updatable", Group(n)>>, <<"asteroid_field", AsteroidField>>,
      <<"player", Player(0)>>, <<"dt", Float>>>>

\* the two log_event calls of main(); as the callers must, they pass no
\* detail named like a reserved key (timestamp, elapsed_s, frame, type)
EventInputs ==
    {[event_type |-> "shot_hit", details |-> <<<<"asteroid_size", JInt(16)>>>>],
     [event_type |-> "player_hit", details |-> <<<<"hp", JInt(0)>>>>]}

Init ==
    /\ frame_count = 0
    /\ state_log_initialized = FALSE
    /\ event_log_initialized = FALSE
    /\ start_time = 45296789
    /\ now = start_time
    /\ state_file \in StaleFiles
    /\ event_file \in StaleFiles
    /\ raised = FALSE
    /\ calls = 0
    /\ event_calls = 0
    /\ writes = <<>>
    /\ pc = "poll"
    /\ iter = 0
    /\ asteroids_left = 0
    /\ shots_left = 0
    /\ sampled = <<>>
    /\ event_iters = <<>>

---------------------------------------------------------------------------
(* Spec: log_state and log_event interleaved over the first two samples.   *)

NearBoundary(fc) ==
    \/ fc % _FPS <= EventWindow
    \/ fc % _FPS >= _FPS - EventWindow

SampleCall ==
    /\ calls < MaxCalls
    /\ LogState(MainScope(2), "ok")
    /\ UNCHANGED main_vars

EventCall ==
    /\ event_calls < MaxEvents
    /\ NearBoundary(frame_count)
    /\ \E e \in EventInputs : LogEvent(e.event_type, e.details, "ok")
    /\ UNCHANGED main_vars

Next == SampleCall \/ EventCall \/ Tick

Spec == Init /\ [][Next]_vars

---------------------------------------------------------------------------
(* SpecBudget: log_state called up to and past the frame ceiling, events   *)
(* reported around the ceiling.                                            *)

BudgetSampleCall ==
    /\ calls < _FPS * _MAX_SECONDS + MaxExtraCalls
    /\ LogState(MainScope(1), "ok")
    /\ UNCHANGED main_vars

BudgetEventCall ==
    /\ event_calls < MaxEvents
    /\ frame_count >= _FPS * _MAX_SECONDS - EventWindow
    /\ NearBoundary(frame_count)
    /\ \E e \in EventInputs : LogEvent(e.event_type, e.details, "ok")
    /\ UNCHANGED main_vars

NextBudget == BudgetSampleCall \/ BudgetEventCall \/ Tick

SpecBudget == Init /\ [][NextBudget]_vars

---------------------------------------------------------------------------
(* SpecSnap: log_state called up to the first sample, under every scope    *)
(* of at most MaxScope variables.                                          *)

GroupSizes == {0, _SPRITE_SAMPLE_LIMIT, MaxGroup}

\* a local variable of the caller: its name and its value (a local may have
\* any name, "frame" too)
Bindings ==
    {<<"screen", Surface(800, 600)>>, <<"dt", Float>>,
     <<"asteroid_field", AsteroidField>>, <<"player", Player(0)>>,
     <<"asteroid", Asteroid(7)>>, <<"shots", Group(1)>>,
     <<"frame", Group(2)>>}
    \cup {<<"updatable", Group(n)>> : n \in GroupSizes}

\* the scopes: sequences of bindings of distinct names
SnapScopes ==
    UNION {{s \in [1..n -> Bindings] :
               \A i, j \in 1..n : i # j => s[i][1] # s[j][1]} : n \in 0..MaxScope}

SnapCall ==
    /\ calls < MaxSnapCalls
    /\ \E s \in SnapScopes : LogState(s, "ok")
    /\ UNCHANGED main_vars

NextSnap == SnapCall \/ Tick

SpecSnap == Init /\ [][NextSnap]_vars

---------------------------------------------------------------------------
(* SpecIO: as Spec, with opens and writes that may fail; the caller goes   *)
(* on calling after a failure.                                             *)

IOOutcomes == {"ok", "open_fails", "write_fails"}

IOSampleCall ==
    /\ calls < MaxCalls
    /\ \E io \in IOOutcomes : LogState(MainScope(1), io)
    /\ UNCHANGED main_vars

IOEventCall ==
    /\ event_calls < MaxEvents
    /\ NearBoundary(frame_count)
    /\ \E e \in EventInputs, io \in IOOutcomes :
           LogEvent(e.event_type, e.details, io)
    /\ UNCHANGED main_vars

NextIO == IOSampleCall \/ IOEventCall

SpecIO == Init /\ [][NextIO]_vars

---------------------------------------------------------------------------
(* SpecShape: as SpecSnap, over scopes in which an object may expose a     *)
(* position that is a tuple, without x and y.                              *)

\* a Python tuple (a, b)
Pair(a, b) == [item0 |-> a, item1 |-> b]

\* a sprite that keeps its position as a tuple
Marker == Obj("Marker", FALSE, <<<<"position", Pair(100000, 200000)>>>>, <<>>)

\* pygame.sprite.Group holding the given sprites
GroupOf(members) == Obj("Group", TRUE, <<>>, members)

ShapeBindings ==
    {<<"dt", Float>>, <<"player", Player(0)>>, <<"marker", Marker>>,
     <<"updatable", Group(0)>>, <<"markers", GroupOf(<<Asteroid(1), Marker>>)>>}

ShapeScopes ==
    UNION {{s \in [1..n -> ShapeBindings] :
               \A i, j \in 1..n : i # j => s[i][1] # s[j][1]} : n \in 0..MaxScope}

ShapeCall ==
    /\ calls < MaxSnapCalls
    /\ \E s \in ShapeScopes : LogState(s, "ok")
    /\ UNCHANGED main_vars

NextShape == ShapeCall \/ Tick

SpecShape == Init /\ [][NextShape]_vars

---------------------------------------------------------------------------
(* SpecMain: the loop of main(), with its one log_state call and its two    *)
(* log_event calls where the code makes them.                              *)

\* where main() goes after updatable.update(dt): to its log_state() call
AfterUpdateSkipping == "poll"
AfterUpdate == "sample"

\* where main() goes after log_event("player_hit", hp=0): sys.exit()
AfterPlayerHitContinue == "shots"
AfterPlayerHit == "exited"

\* the details main() passes with the named event
DetailsOf(event_type) ==
    (CHOOSE e \in EventInputs : e.event_type = event_type).details

\* for event in pygame.event.get(): a QUIT event returns from main()
Quit ==
    /\ pc = "poll"
    /\ pc' = "returned"
    /\ UNCHANGED <<frame_count, state_log_initialized, event_log_initialized,
                   start_time, state_file, event_file, now, raised, calls,
                   event_calls, writes>>
    /\ UNCHANGED <<iter, asteroids_left, shots_left, sampled, event_iters>>

\* no QUIT event: updatable.update(dt)
Update ==
    /\ pc = "poll"
    /\ iter < MaxIters
    /\ iter' = iter + 1
    /\ pc' = AfterUpdate
    /\ UNCHANGED <<frame_count, state_log_initialized, event_log_initialized,
                   start_time, state_file, event_file, now, raised, calls,
                   event_calls, writes>>
    /\ UNCHANGED <<asteroids_left, shots_left, sampled, event_iters>>

\* log_state(), then the head of  for asteroid in asteroids
MainSample ==
    /\ pc = "sample"
    /\ LogState(MainScope(1), "ok")
    /\ sampled' = Append(sampled, frame_count')
    /\ pc' = "collide"
    /\ asteroids_left' \in 0..MaxAsteroids
    /\ UNCHANGED <<iter, shots_left, event_iters>>

\* asteroid.collision(player): log_event("player_hit", hp=0), sys.exit()
PlayerHit ==
    /\ pc = "collide"
    /\ asteroids_left > 0
    /\ LogEvent("player_hit", DetailsOf("player_hit"), "ok")
    /\ event_iters' = Append(event_iters, iter)
    /\ pc' = AfterPlayerHit
    /\ UNCHANGED <<iter, asteroids_left, shots_left, sampled>>

\* the asteroid misses the player: the head of  for shot in shots
PlayerMissed ==
    /\ pc = "collide"
    /\ asteroids_left > 0
    /\ pc' = "shots"
    /\ shots_left' \in 0..MaxShots
    /\ UNCHANGED <<frame_count, state_log_initialized, event_log_initialized,
                   start_time, state_file, event_file, now, raised, calls,
                   event_calls, writes>>
    /\ UNCHANGED <<iter, asteroids_left, sampled, event_iters>>

\* asteroid.collision(shot): log_event("shot_hit", asteroid_size=...),
\* shot.kill(), asteroid.split()
ShotHit ==
    /\ pc = "shots"
    /\ shots_left > 0
    /\ event_calls < MaxEvents
    /\ NearBoundary(frame_count)
    /\ LogEvent("shot_hit", DetailsOf("shot_hit"), "ok")
    /\ event_iters' = Append(event_iters, iter)
    /\ shots_left' = shots_left - 1
    /\ UNCHANGED <<pc, iter, asteroids_left, sampled>>

\* the shot misses the asteroid
ShotMissed ==
    /\ pc = "shots"
    /\ shots_left > 0
    /\ shots_left' = shots_left - 1
    /\ UNCHANGED <<frame_count, state_log_initialized, event_log_initialized,
                   start_time, state_file, event_file, now, raised, calls,
                   event_calls, writes>>
    /\ UNCHANGED <<pc, iter, asteroids_left, sampled, event_iters>>

\* the shots are exhausted: on to the next asteroid
NextAsteroid ==
    /\ pc = "shots"
    /\ shots_left = 0
    /\ asteroids_left' = asteroids_left - 1
    /\ pc' = "collide"
    /\ UNCHANGED <<frame_count, state_log_initialized, event_log_initialized,
                   start_time, state_file, event_file, now, raised, calls,
                   event_calls, writes>>
    /\ UNCHANGED <<iter, shots_left, sampled, event_iters>>

\* the asteroids are exhausted: draw, flip, clock.tick(60), loop
Draw ==
    /\ pc = "collide"
    /\ asteroids_left = 0
    /\ pc' = "poll"
    /\ UNCHANGED <<frame_count, state_log_initialized, event_log_initialized,
                   start_time, state_file, event_file, now, raised, calls,
                   event_calls, writes>>
    /\ UNCHANGED <<iter, asteroids_left, shots_left, sampled, event_iters>>

NextMain ==
    \/ Quit
    \/ Update
    \/ MainSample
    \/ PlayerHit
    \/ PlayerMissed
    \/ ShotHit
    \/ ShotMissed
    \/ NextAsteroid
    \/ Draw
    \/ Tick

SpecMain == Init /\ [][NextMain]_vars

---------------------------------------------------------------------------
(* Properties of the throttle, the budget and the two files.               *)

Ceiling == _FPS * _MAX_SECONDS

StateWrites == SelectSeq(writes, LAMBDA w : w.file = "state")
EventWrites == SelectSeq(writes, LAMBDA w : w.file = "event")
Lines(ws) == [i \in DOMAIN ws |-> ws[i].line]
FrameOf(line) == Get(line, "frame").int
NonDecreasing(frames) ==
    \A i, j \in DOMAIN frames : i < j => frames[i] <= frames[j]

\* C1: after n log_state calls, interleaved with log_event calls, the number
\* of records written to game_state.jsonl in this run is
\* floor(min(n, FPS * MAX_SECONDS) / FPS); once the file is initialised that
\* is its line count.
StateLineCount ==
    /\ Len(StateWrites) = Min(calls, _FPS * _MAX_SECONDS) \div _FPS
    /\ state_log_initialized =>
           Len(state_file) = Min(calls, _FPS * _MAX_SECONDS) \div _FPS

\* all sixteen samples written, calls made past the ceiling, events logged
StateLineCountWitness ==
    /\ calls > _FPS * _MAX_SECONDS
    /\ Len(state_file) = _MAX_SECONDS
    /\ event_calls > 0

\* C2: once the frame counter is past the ceiling FPS * MAX_SECONDS, no step
\* changes game_state.jsonl and the counter stays past the ceiling.
DisabledPastCeiling ==
    [][frame_count > Ceiling =>
           /\ state_file' = state_file
           /\ state_log_initialized' = state_log_initialized
           /\ frame_count' > Ceiling]_vars

\* a full second of calls was made past the ceiling
DisabledPastCeilingWitness ==
    /\ frame_count > Ceiling
    /\ calls >= Ceiling + _FPS
    /\ Len(state_file) = _MAX_SECONDS

\* C3: once a file has been written in this run it holds exactly the records
\* written to it in this run, one per line in write order, whatever it held
\* before the run.
FilesHoldWrites ==
    /\ StateWrites # <<>> => state_file = Lines(StateWrites)
    /\ EventWrites # <<>> => event_file = Lines(EventWrites)
    /\ state_log_initialized <=> StateWrites # <<>>
    /\ event_log_initialized <=> EventWrites # <<>>

\* each file written twice: one truncating and one appending write each
FilesHoldWritesWitness ==
    /\ Len(StateWrites) = 2
    /\ Len(EventWrites) = 2
    /\ Len(state_file) = 2
    /\ Len(event_file) = 2

\* C4: log_event leaves the state log's flag and file alone, log_state leaves
\* the event log's flag and file alone, and the write that initialises a file
\* leaves exactly one line in it, whatever the other file's flag is.
FilesIndependent ==
    [][/\ event_calls' # event_calls =>
              UNCHANGED <<state_log_initialized, state_file>>
       /\ calls' # calls =>
              UNCHANGED <<event_log_initialized, event_file>>
       /\ (~state_log_initialized /\ state_log_initialized') =>
              Len(state_file') = 1
       /\ (~event_log_initialized /\ event_log_initialized') =>
              Len(event_file') = 1]_vars

\* the event log was first written after the state log, over stale lines
FilesIndependentWitness ==
    /\ Len(writes) >= 2
    /\ writes[1].file = "state"
    /\ writes[2].file = "event"
    /\ Len(event_file) = 1

\* C5: the frame values of the records written in this run are non-decreasing
\* in write order, in each file and across the two files.
FramesNonDecreasing ==
    /\ NonDecreasing([i \in DOMAIN writes |-> FrameOf(writes[i].line)])
    /\ state_log_initialized =>
           NonDecreasing([i \in DOMAIN state_file |-> FrameOf(state_file[i])])
    /\ event_log_initialized =>
           NonDecreasing([i \in DOMAIN event_file |-> FrameOf(event_file[i])])

\* an event before a sample, the sample, an event after it
FramesNonDecreasingWitness ==
    /\ Len(writes) = 3
    /\ writes[1].file = "event"
    /\ writes[2].file = "state"
    /\ writes[3].file = "event"
    /\ FrameOf(writes[1].line) < FrameOf(writes[2].line)
    /\ FrameOf(writes[3].line) > FrameOf(writes[2].line)

\* C6: a log_event(event_type, **details) call adds exactly one record to
\* game_events.jsonl, as its last line; the record's type is event_type, each
\* detail is a top-level key with the supplied value, its frame is the frame
\* counter at the call, and the call leaves the counter unchanged.
EventRecorded ==
    [][\A e \in EventInputs :
           LogEvent(e.event_type, e.details, "ok") =>
               LET kept == IF event_log_initialized THEN event_file ELSE <<>>
                   rec == event_file'[Len(event_file')]
               IN  /\ Len(event_file') = Len(kept) + 1
                   /\ SubSeq(event_file', 1, Len(kept)) = kept
                   /\ Get(rec, "type") = JStr(e.event_type)
                   /\ \A i \in DOMAIN e.details :
                          /\ HasKey(rec, e.details[i][1])
                          /\ Get(rec, e.details[i][1]) = e.details[i][2]
                   /\ Get(rec, "frame") = JInt(frame_count)
                   /\ frame_count' = frame_count]_vars

\* shot_hit with asteroid_size 16 was appended after an earlier event
EventRecordedWitness ==
    /\ Len(event_file) = 2
    /\ event_log_initialized
    /\ Get(event_file[2], "type") = JStr("shot_hit")
    /\ Get(event_file[2], "asteroid_size") = JInt(16)
    /\ Get(event_file[2], "frame") = JInt(frame_count)
    /\ frame_count >= _FPS

\* C9: after n log_state calls the frame counter is n, also past the ceiling.
CounterCountsCalls == frame_count = calls

---------------------------------------------------------------------------
(* Properties of the snapshot.                                             *)

ReservedStateKeys == <<"timestamp", "elapsed_s", "frame", "screen_size">>

\* the sprites array the group g must show: its first min(n, 10) members
FirstSprites(g) ==
    [i \in 1..Min(Len(g.members), 10) |-> JObj(SpriteInfo(g.members[i]))]

\* C7: in every emitted state record, the snapshot of each group of the scope
\* has count = the group's size n and sprites = the summaries of its first
\* min(n, 10) members in iteration order.
GroupSnapshotCapped ==
    \A k \in DOMAIN StateWrites :
        LET w == StateWrites[k] IN
        \A i \in DOMAIN w.local_vars :
            LET key == w.local_vars[i][1]
                g == w.local_vars[i][2]
            IN  IsGroup(g) =>
                    /\ HasKey(w.line, key)
                    /\ Get(w.line, key) =
                           JObj(<<<<"count", JInt(Len(g.members))>>,
                                  <<"sprites", JArr(FirstSprites(g))>>>>)

\* a record shows a group of more than 10 sprites with 10 summaries, and an
\* empty group with none
GroupSnapshotCappedWitness ==
    /\ \E k \in DOMAIN StateWrites :
           /\ HasKey(StateWrites[k].line, "updatable")
           /\ Get(StateWrites[k].line, "updatable").obj[1][2].int > 10
           /\ Len(Get(StateWrites[k].line, "updatable").obj[2][2].arr) = 10
    /\ state_log_initialized

\* C8: in every emitted state record, a variable that follows a group in
\* scope order and is not itself a group has no top-level entry.
GroupPrecedence ==
    \A k \in DOMAIN StateWrites :
        LET w == StateWrites[k] IN
        \A i, j \in DOMAIN w.local_vars :
            (i < j /\ IsGroup(w.local_vars[i][2]) /\ ~IsGroup(w.local_vars[j][2]))
                => ~HasKey(w.line, w.local_vars[j][1])

\* the player follows a group in scope and is left out of the record
GroupPrecedenceWitness ==
    \E k \in DOMAIN StateWrites :
        LET w == StateWrites[k] IN
        /\ Len(w.local_vars) = 2
        /\ IsGroup(w.local_vars[1][2])
        /\ w.local_vars[2][1] = "player"
        /\ HasAttr(w.local_vars[2][2], "position")
        /\ Keys(w.line) = {"timestamp", "elapsed_s", "frame", "screen_size",
                           w.local_vars[1][1]}

\* nothing in the scope is a display surface, a group or has a position
NothingLoggable(local_vars) ==
    \A i \in DOMAIN local_vars :
        /\ ~IsSurface(local_vars[i][2])
        /\ ~IsGroup(local_vars[i][2])
        /\ ~HasAttr(local_vars[i][2], "position")

\* C10: every qualifying tick writes a record whatever the scope holds, and
\* a record written from a scope with no display surface, no group and no
\* entity has an empty screen_size and the keys timestamp, elapsed_s, frame,
\* screen_size only.
BareRecordWritten ==
    /\ Len(StateWrites) = calls \div 60
    /\ \A k \in DOMAIN StateWrites :
           LET w == StateWrites[k] IN
           NothingLoggable(w.local_vars) =>
               /\ [i \in DOMAIN w.line |-> w.line[i][1]] = ReservedStateKeys
               /\ Get(w.line, "screen_size") = JArr(<<>>)
               /\ state_file[k] = w.line

\* a record was written from a scope holding only the clock and dt
BareRecordWrittenWitness ==
    \E k \in DOMAIN StateWrites :
        LET w == StateWrites[k] IN
        /\ Len(w.local_vars) = 2
        /\ NothingLoggable(w.local_vars)
        /\ Len(w.line) = 4
        /\ state_file[Len(state_file)] = w.line

---------------------------------------------------------------------------
(* Properties of single calls around and past the ceiling.                 *)

\* C11: a log_state call writes a record exactly when it increments the frame
\* counter to a multiple of FPS not above FPS * MAX_SECONDS; every other
\* log_state call writes nothing and leaves both files and both flags as
\* they were.
WritesExactlyWhenDue ==
    [][calls' # calls =>
           LET due == /\ frame_count' = frame_count + 1
                      /\ frame_count' % 60 = 0
                      /\ frame_count' <= 60 * 16
               kept == IF state_log_initialized THEN state_file ELSE <<>>
           IN  /\ due =>
                      /\ Len(StateWrites') = Len(StateWrites) + 1
                      /\ Len(state_file') = Len(kept) + 1
                      /\ SubSeq(state_file', 1, Len(kept)) = kept
                      /\ FrameOf(state_file'[Len(state_file')]) = frame_count'
               /\ ~due =>
                      /\ writes' = writes
                      /\ UNCHANGED <<state_file, event_file,
                                     state_log_initialized,
                                     event_log_initialized>>]_vars

\* the sample of frame 960 is the file's last line and later calls, past the
\* ceiling, have added nothing
WritesExactlyWhenDueWitness ==
    /\ calls = Ceiling + 2
    /\ Len(state_file) = _MAX_SECONDS
    /\ FrameOf(state_file[Len(state_file)]) = Ceiling
    /\ event_log_initialized

---------------------------------------------------------------------------
(* Properties of the standalone fallback and of the reserved keys.         *)

\* an object with a position that is not a group
IsEntity(value) == HasAttr(value, "position") /\ ~IsGroup(value)

\* C12: in every emitted state record, each entity of the scope has a
\* top-level entry under its name if and only if no group precedes it in
\* scope order; so two entities that precede every group both appear.
EntityIffNoEarlierGroup ==
    \A k \in DOMAIN StateWrites :
        LET w == StateWrites[k] IN
        \A j \in DOMAIN w.local_vars :
            IsEntity(w.local_vars[j][2]) =>
                (HasKey(w.line, w.local_vars[j][1])
                    <=> ~\E i \in 1..(j - 1) : IsGroup(w.local_vars[i][2]))

\* C13: the frame field of every emitted state record is the frame counter
\* at emission, and timestamp, elapsed_s and screen_size are a string, an
\* integer and a list, whatever the names of the variables of the scope,
\* a variable named frame included.
ReservedKeysKept ==
    [][Len(StateWrites') > Len(StateWrites) =>
           LET rec == state_file'[Len(state_file')]
           IN  /\ Get(rec, "frame") = JInt(frame_count')
               /\ DOMAIN Get(rec, "timestamp") = {"str"}
               /\ DOMAIN Get(rec, "elapsed_s") = {"int"}
               /\ DOMAIN Get(rec, "screen_size") = {"arr"}]_vars

---------------------------------------------------------------------------
(* Properties of failing writes.                                           *)

\* C14: a log_state or log_event call whose open or write fails raises to
\* the caller, leaves the file's flag as it was, and its record enters the
\* file neither then nor later: an initialised file holds exactly the
\* records of the calls that succeeded.
FailurePropagates ==
    /\ [][\A io \in {"open_fails", "write_fails"} :
              /\ \A e \in EventInputs :
                     LogEvent(e.event_type, e.details, io) =>
                         /\ raised'
                         /\ event_log_initialized' = event_log_initialized
                         /\ writes' = writes
                         /\ event_file' \in {event_file, <<>>}
              /\ (LogState(MainScope(1), io) /\ SampleDue(frame_count')
                     /\ frame_count' # frame_count) =>
                         /\ raised'
                         /\ state_log_initialized' = state_log_initialized
                         /\ writes' = writes
                         /\ state_file' \in {state_file, <<>>}]_vars
    /\ [](state_log_initialized => state_file = Lines(StateWrites))
    /\ [](event_log_initialized => event_file = Lines(EventWrites))
    /\ [](~state_log_initialized => StateWrites = <<>>)
    /\ [](~event_log_initialized => EventWrites = <<>>)

\* the first write of each file failed and a later one succeeded in
\* truncate mode: each file holds the one record of the call that succeeded
FailurePropagatesWitness ==
    /\ event_calls = 2
    /\ Len(EventWrites) = 1
    /\ event_file = Lines(EventWrites)
    /\ calls = 2 * _FPS
    /\ Len(StateWrites) = 1
    /\ state_file = Lines(StateWrites)
    /\ FrameOf(state_file[1]) = 2 * _FPS
    /\ ~raised

---------------------------------------------------------------------------
(* Properties of malformed attributes.                                     *)

\* C15: with no I/O failure, no log_state call raises to its caller, whatever
\* the shape of the attributes of the objects in scope.
SamplerNeverRaises == ~raised

---------------------------------------------------------------------------
(* Properties of the game loop.                                            *)

\* C16: every iteration of main()'s loop that does not return on QUIT calls
\* log_state exactly once, after the update step and before any log_event
\* call of that iteration; every event recorded in iteration k carries the
\* frame counter value the k-th log_state call produced.
LoopSamplesOnce ==
    /\ [](calls = IF pc = "sample" THEN iter - 1 ELSE iter)
    /\ [](Len(sampled) = calls /\ Len(event_iters) = event_calls)
    /\ [][calls' # calls =>
              /\ pc = "sample"
              /\ calls' = calls + 1
              /\ event_calls' = event_calls
              /\ \A i \in DOMAIN event_iters : event_iters[i] < iter]_vars
    /\ [][event_calls' # event_calls =>
              /\ pc \in {"collide", "shots"}
              /\ calls = iter
              /\ calls' = calls]_vars
    /\ [](\A i \in DOMAIN EventWrites :
              /\ i \in DOMAIN event_iters
              /\ event_iters[i] \in DOMAIN sampled
              /\ FrameOf(EventWrites[i].line) = sampled[event_iters[i]])

\* sixty iterations are over, the sixtieth wrote a state record and then a
\* shot_hit record of frame 60, after a shot_hit of iteration 1
LoopSamplesOnceWitness ==
    /\ pc = "poll"
    /\ iter = _FPS
    /\ event_iters = <<1, _FPS>>
    /\ Len(writes) = 3
    /\ writes[2].file = "state"
    /\ FrameOf(writes[2].line) = _FPS
    /\ writes[3].file = "event"
    /\ FrameOf(writes[3].line) = _FPS
    /\ FrameOf(writes[1].line) = 1

\* C17: a player_hit event is terminal: main() exits right after logging it,
\* so at most one player_hit record is written in a run, it is the last
\* record of game_events.jsonl, and no log_state or log_event call follows
\* it, not even a shot_hit for the asteroids left in that iteration.
PlayerHitTerminal ==
    /\ [](\A i \in DOMAIN writes :
              (writes[i].file = "event"
                  /\ writes[i].event_type = "player_hit") =>
                      /\ i = Len(writes)
                      /\ pc = "exited")
    /\ [](pc = "exited" =>
              /\ event_log_initialized
              /\ event_file = Lines(EventWrites)
              /\ event_file # <<>>
              /\ \A i \in DOMAIN event_file :
                     Get(event_file[i], "type") = JStr("player_hit")
                         <=> i = Len(event_file))
    /\ [][pc = "exited" =>
              UNCHANGED <<pc, calls, event_calls, frame_count, writes,
                          state_file, event_file>>]_vars

\* main() exited on a player_hit in its sixtieth iteration with two
\* asteroids still to visit, after a shot_hit of the iteration before
PlayerHitTerminalWitness ==
    /\ pc = "exited"
    /\ iter = _FPS
    /\ asteroids_left = MaxAsteroids
    /\ Len(event_file) = 2
    /\ Get(event_file[1], "type") = JStr("shot_hit")
    /\ FrameOf(event_file[1]) = _FPS - 1
    /\ Get(event_file[2], "type") = JStr("player_hit")
    /\ FrameOf(event_file[2]) = _FPS
    /\ Len(state_file) = 1

---------------------------------------------------------------------------
(* Properties of the counter and the recorder past the budget.             *)

RecorderOutlivesBudget ==
    [][(BudgetExceeded(frame_count) /\ event_calls' = event_calls + 1) =>
           /\ Len(writes') = Len(writes) + 1
           /\ SubSeq(writes', 1, Len(writes)) = writes
           /\ writes'[Len(writes')].file = "event"
           /\ FrameOf(writes'[Len(writes')].line) = frame_count
           /\ event_log_initialized'
           /\ event_file' =
                  IF event_log_initialized
                  THEN Append(event_file, writes'[Len(writes')].line)
                  ELSE <<writes'[Len(writes')].line>>
           /\ state_file' = state_file]_vars

\* two log_event calls were made after the sampler disabled itself, and
\* game_events.jsonl holds both records
RecorderOutlivesBudgetWitness ==
    /\ calls > Ceiling + 1
    /\ frame_count = Ceiling + 1
    /\ event_calls = 2
    /\ Len(event_file) = 2
    /\ event_log_initialized
    /\ FrameOf(event_file[1]) = Ceiling + 1
    /\ FrameOf(event_file[2]) = Ceiling + 1
    /\ Get(event_file[1], "type") # Get(event_file[2], "type")

====
